---- MODULE Spec2Model ----
(***************************************************************************)
(* Touch-screen pocket calculator (STM32F429 Discovery, User/main.c).      *)
(*                                                                         *)
(* The module models the calculator engine (CalculatorState and the        *)
(* Calculator_* handlers), the button table with its hit test, and the     *)
(* polling loop of main() with its render gate.                            *)
(*                                                                         *)
(* Numbers.  The C code computes in double.  A value is modelled as an     *)
(* exact rational <<n, d>> in lowest terms with d > 0.  Within the bounds  *)
(* used here every value is far from the overflow range of a double, so    *)
(* inf and NaN never arise; rounding of the last bit is not modelled.      *)
(*                                                                         *)
(* Strings.  A C string is modelled as the sequence of its characters in   *)
(* front of the terminator; a character is a one-character TLA+ string,    *)
(* and NUL stands for '\0'.                                                *)
(***************************************************************************)
EXTENDS Integers, Sequences, FiniteSets

(***************************************************************************)
(* Layout constants (main.c:17-25)                                         *)
(***************************************************************************)
\* the panel width of the display in portrait orientation, used at main.c:23
ILI9341_WIDTH == 240
DISPLAY_HEIGHT == 80
BUTTON_COLUMNS == 4
BUTTON_ROWS == 4
BUTTON_SPACING == 4
BUTTON_START_X == 6
BUTTON_START_Y == DISPLAY_HEIGHT + 10
BUTTON_WIDTH ==
    (ILI9341_WIDTH - (BUTTON_START_X * 2) - (BUTTON_SPACING * (BUTTON_COLUMNS - 1)))
        \div BUTTON_COLUMNS
BUTTON_HEIGHT == 55
INPUT_BUFFER_SIZE == 17

CALC_BUTTON_DIGIT == "CALC_BUTTON_DIGIT"
CALC_BUTTON_OPERATOR == "CALC_BUTTON_OPERATOR"
CALC_BUTTON_CLEAR == "CALC_BUTTON_CLEAR"
CALC_BUTTON_EQUALS == "CALC_BUTTON_EQUALS"

\* the character '\0'
NUL == "NUL"

(***************************************************************************)
(* The button table (main.c:57-75).  Indices are the C indices 0..16.      *)
(***************************************************************************)
\* the grid without the gap between neighbours
GridButton_NoSpacing(label, col, row, type) ==
    [label |-> label,
     x |-> BUTTON_START_X + col * BUTTON_WIDTH,
     y |-> BUTTON_START_Y + row * BUTTON_HEIGHT,
     w |-> BUTTON_WIDTH,
     h |-> BUTTON_HEIGHT,
     type |-> type]

GridButton(label, col, row, type) ==
    [label |-> label,
     x |-> BUTTON_START_X + col * (BUTTON_WIDTH + BUTTON_SPACING),
     y |-> BUTTON_START_Y + row * (BUTTON_HEIGHT + BUTTON_SPACING),
     w |-> BUTTON_WIDTH,
     h |-> BUTTON_HEIGHT,
     type |-> type]

EqualsButton ==
    [label |-> "=",
     x |-> BUTTON_START_X,
     y |-> BUTTON_START_Y + 4 * (BUTTON_HEIGHT + BUTTON_SPACING),
     w |-> BUTTON_WIDTH * 4 + BUTTON_SPACING * 3,
     h |-> BUTTON_HEIGHT,
     type |-> CALC_BUTTON_EQUALS]

buttonTable ==
    << GridButton("7", 0, 0, CALC_BUTTON_DIGIT),
       GridButton("8", 1, 0, CALC_BUTTON_DIGIT),
       GridButton("9", 2, 0, CALC_BUTTON_DIGIT),
       GridButton("/", 3, 0, CALC_BUTTON_OPERATOR),
       GridButton("4", 0, 1, CALC_BUTTON_DIGIT),
       GridButton("5", 1, 1, CALC_BUTTON_DIGIT),
       GridButton("6", 2, 1, CALC_BUTTON_DIGIT),
       GridButton("*", 3, 1, CALC_BUTTON_OPERATOR),
       GridButton("1", 0, 2, CALC_BUTTON_DIGIT),
       GridButton("2", 1, 2, CALC_BUTTON_DIGIT),
       GridButton("3", 2, 2, CALC_BUTTON_DIGIT),
       GridButton("-", 3, 2, CALC_BUTTON_OPERATOR),
       GridButton("0", 0, 3, CALC_BUTTON_DIGIT),
       GridButton(".", 1, 3, CALC_BUTTON_DIGIT),
       GridButton("C", 2, 3, CALC_BUTTON_CLEAR),
       GridButton("+", 3, 3, CALC_BUTTON_OPERATOR),
       EqualsButton >>

\* sizeof(buttons) / sizeof(buttons[0])
NumButtons == Len(buttonTable)

\* buttons[i] with the C index i in 0 .. NumButtons-1
buttons == [i \in 0 .. (NumButtons - 1) |-> buttonTable[i + 1]]

ButtonIndex(label) == CHOOSE i \in DOMAIN buttons : buttons[i].label = label

(***************************************************************************)
(* double arithmetic on exact rationals                                    *)
(***************************************************************************)
Abs(n) == IF n < 0 THEN -n ELSE n

RECURSIVE Gcd(_, _)
Gcd(a, b) == IF b = 0 THEN a ELSE Gcd(b, a % b)

\* the rational n/d (d # 0) in lowest terms with a positive denominator
Rat(n, d) ==
    LET g == Gcd(Abs(n), Abs(d))
        s == IF d < 0 THEN -1 ELSE 1
    IN  << (s * n) \div g, Abs(d) \div g >>

Zero == Rat(0, 1)
RAdd(a, b) == Rat(a[1] * b[2] + b[1] * a[2], a[2] * b[2])
RSub(a, b) == Rat(a[1] * b[2] - b[1] * a[2], a[2] * b[2])
RMul(a, b) == Rat(a[1] * b[1], a[2] * b[2])
RDiv(a, b) == Rat(a[1] * b[2], a[2] * b[1])

(***************************************************************************)
(* atof (main.c:113): digits, optionally a '.', digits; the scan stops at  *)
(* the first character that does not fit, and a string with no digit       *)
(* converts to 0.0.                                                        *)
(***************************************************************************)
DigitChars == {"0", "1", "2", "3", "4", "5", "6", "7", "8", "9"}

DigitValue(c) ==
    CASE c = "0" -> 0 [] c = "1" -> 1 [] c = "2" -> 2 [] c = "3" -> 3
      [] c = "4" -> 4 [] c = "5" -> 5 [] c = "6" -> 6 [] c = "7" -> 7
      [] c = "8" -> 8 [] c = "9" -> 9

\* the number of leading digit characters of s
RECURSIVE DigitRun(_)
DigitRun(s) ==
    IF s # << >> /\ Head(s) \in DigitChars THEN 1 + DigitRun(Tail(s)) ELSE 0

\* the integer written by the digits s[from .. to]
RECURSIVE Numeral(_, _, _)
Numeral(s, from, to) ==
    IF to < from THEN 0 ELSE Numeral(s, from, to - 1) * 10 + DigitValue(s[to])

\* the last of from .. to where s has a digit other than '0', or from - 1
RECURSIVE LastSignificant(_, _, _)
LastSignificant(s, from, to) ==
    IF to < from \/ s[to] # "0" THEN to ELSE LastSignificant(s, from, to - 1)

RECURSIVE Pow10(_)
Pow10(k) == IF k = 0 THEN 1 ELSE 10 * Pow10(k - 1)

\* The integer digits are s[1 .. n]; after a '.', the fraction digits are
\* s[n+2 .. n+1+m], of which the trailing zeros add nothing to the value.
atof(s) ==
    LET n == DigitRun(s)
        m == IF n < Len(s) /\ s[n + 1] = "."
             THEN DigitRun(SubSeq(s, n + 2, Len(s)))
             ELSE 0
        last == LastSignificant(s, n + 2, n + 1 + m)
    IN  RAdd(Rat(Numeral(s, 1, n), 1),
             Rat(Numeral(s, n + 2, last), Pow10(last - (n + 1))))

(***************************************************************************)
(* The calculator engine (main.c:77-133, 232-284).  A CalculatorState is a *)
(* record with the fields of the C struct.                                 *)
(***************************************************************************)
\* memset(state->input, 0, sizeof(state->input))
Calculator_ClearInput(s) == [s EXCEPT !.input = << >>]

\* Calculator_Reset without line 80
Reset_KeepsHasAccumulator(s) ==
    [accumulator |-> Zero,
     currentOperator |-> NUL,
     hasAccumulator |-> s.hasAccumulator,
     error |-> FALSE,
     input |-> << >>]

Calculator_Reset(s) ==
    [accumulator |-> Zero,
     currentOperator |-> NUL,
     hasAccumulator |-> FALSE,
     error |-> FALSE,
     input |-> << >>]

\* strchr(state->input, '.') != NULL
Calculator_InputHasDecimal(s) == \E k \in 1 .. Len(s.input) : s.input[k] = "."

\* Calculator_AppendInput with > for >= in line 96
AppendInput_OffByOne(s, value) ==
    LET len == Len(s.input)
    IN  IF len + 1 > INPUT_BUFFER_SIZE THEN s
        ELSE IF value = "." /\ Calculator_InputHasDecimal(s) THEN s
        ELSE [s EXCEPT !.input = Append(s.input, value)]

\* Calculator_AppendInput without lines 100-102
AppendInput_NoDecimalCheck(s, value) ==
    LET len == Len(s.input)
    IN  IF len + 1 >= INPUT_BUFFER_SIZE THEN s
        ELSE [s EXCEPT !.input = Append(s.input, value)]

Calculator_AppendInput(s, value) ==
    LET len == Len(s.input)
    IN  IF len + 1 >= INPUT_BUFFER_SIZE THEN s
        ELSE IF value = "." /\ Calculator_InputHasDecimal(s) THEN s
        ELSE [s EXCEPT !.input = Append(s.input, value)]

Calculator_ParseInput(s) ==
    IF s.input = << >> THEN Zero ELSE atof(s.input)

\* Calculator_ApplyOperation without line 126
ApplyOperation_NoErrorFlag(a, b, op, error) ==
    CASE op = "+" -> [result |-> RAdd(a, b), error |-> error]
      [] op = "-" -> [result |-> RSub(a, b), error |-> error]
      [] op = "*" -> [result |-> RMul(a, b), error |-> error]
      [] op = "/" -> IF b = Zero
                     THEN [result |-> Zero, error |-> error]
                     ELSE [result |-> RDiv(a, b), error |-> error]
      [] OTHER -> [result |-> b, error |-> error]

\* Calculator_ApplyOperation with a for 0.0 in line 127
ApplyOperation_ErrorKeepsA(a, b, op, error) ==
    CASE op = "+" -> [result |-> RAdd(a, b), error |-> error]
      [] op = "-" -> [result |-> RSub(a, b), error |-> error]
      [] op = "*" -> [result |-> RMul(a, b), error |-> error]
      [] op = "/" -> IF b = Zero
                     THEN [result |-> a, error |-> TRUE]
                     ELSE [result |-> RDiv(a, b), error |-> error]
      [] OTHER -> [result |-> b, error |-> error]

\* the value returned, and the value of *error afterwards
Calculator_ApplyOperation(a, b, op, error) ==
    CASE op = "+" -> [result |-> RAdd(a, b), error |-> error]
      [] op = "-" -> [result |-> RSub(a, b), error |-> error]
      [] op = "*" -> [result |-> RMul(a, b), error |-> error]
      [] op = "/" -> IF b = Zero
                     THEN [result |-> Zero, error |-> TRUE]
                     ELSE [result |-> RDiv(a, b), error |-> error]
      [] OTHER -> [result |-> b, error |-> error]

\* the condition of line 238 without its second half
OperatorApplies_PendingOnly(s) == s.currentOperator # NUL

\* state->currentOperator != 0 || state->input[0] != '\0'      (main.c:238)
OperatorApplies(s) == s.currentOperator # NUL \/ s.input # << >>

\* Calculator_HandleOperator without lines 238-240
HandleOperator_NoApply(s, operatorChar) ==
    LET value == Calculator_ParseInput(s)
        s1 == IF ~s.hasAccumulator
              THEN [s EXCEPT !.accumulator = value, !.hasAccumulator = TRUE]
              ELSE s
    IN  [Calculator_ClearInput(s1) EXCEPT !.currentOperator = operatorChar]

Calculator_HandleOperator(s, operatorChar) ==
    LET value == Calculator_ParseInput(s)
        r == Calculator_ApplyOperation(s.accumulator, value, s.currentOperator, s.error)
        s1 == IF ~s.hasAccumulator
              THEN [s EXCEPT !.accumulator = value, !.hasAccumulator = TRUE]
              ELSE IF OperatorApplies(s)
              THEN [s EXCEPT !.accumulator = r.result, !.error = r.error]
              ELSE s
    IN  [Calculator_ClearInput(s1) EXCEPT !.currentOperator = operatorChar]

\* Calculator_HandleEquals without line 258
HandleEquals_KeepsOperator(s) ==
    IF ~s.hasAccumulator /\ s.input # << >>
    THEN Calculator_ClearInput(
             [s EXCEPT !.accumulator = Calculator_ParseInput(s),
                       !.hasAccumulator = TRUE,
                       !.currentOperator = NUL])
    ELSE IF s.hasAccumulator /\ s.currentOperator # NUL
    THEN LET value == Calculator_ParseInput(s)
             r == Calculator_ApplyOperation(s.accumulator, value,
                                            s.currentOperator, s.error)
         IN  Calculator_ClearInput(
                 [s EXCEPT !.accumulator = r.result,
                           !.error = r.error])
    ELSE s

Calculator_HandleEquals(s) ==
    IF ~s.hasAccumulator /\ s.input # << >>
    THEN Calculator_ClearInput(
             [s EXCEPT !.accumulator = Calculator_ParseInput(s),
                       !.hasAccumulator = TRUE,
                       !.currentOperator = NUL])
    ELSE IF s.hasAccumulator /\ s.currentOperator # NUL
    THEN LET value == Calculator_ParseInput(s)
             r == Calculator_ApplyOperation(s.accumulator, value,
                                            s.currentOperator, s.error)
         IN  Calculator_ClearInput(
                 [s EXCEPT !.accumulator = r.result,
                           !.error = r.error,
                           !.currentOperator = NUL])
    ELSE s

\* Calculator_HandleButton without lines 264-266
HandleButton_NoErrorGuard(s, button) ==
    CASE button.type = CALC_BUTTON_DIGIT ->
             Calculator_AppendInput(s, button.label)
      [] button.type = CALC_BUTTON_OPERATOR ->
             Calculator_HandleOperator(s, button.label)
      [] button.type = CALC_BUTTON_CLEAR ->
             Calculator_Reset(s)
      [] button.type = CALC_BUTTON_EQUALS ->
             Calculator_HandleEquals(s)
      [] OTHER -> s

Calculator_HandleButton(s, button) ==
    IF s.error /\ button.type # CALC_BUTTON_CLEAR THEN s
    ELSE CASE button.type = CALC_BUTTON_DIGIT ->
                  Calculator_AppendInput(s, button.label)
           [] button.type = CALC_BUTTON_OPERATOR ->
                  Calculator_HandleOperator(s, button.label)
           [] button.type = CALC_BUTTON_CLEAR ->
                  Calculator_Reset(s)
           [] button.type = CALC_BUTTON_EQUALS ->
                  Calculator_HandleEquals(s)
           [] OTHER -> s

\* no call of Calculator_ApplyOperation
NoCall == "no call"

\* The operator Calculator_HandleButton(s, button) hands to
\* Calculator_ApplyOperation (main.c:239, 257), or NoCall when it makes no
\* such call.
AppliedOperator(s, button) ==
    IF s.error /\ button.type # CALC_BUTTON_CLEAR THEN NoCall
    ELSE CASE button.type = CALC_BUTTON_OPERATOR ->
                  IF s.hasAccumulator /\ OperatorApplies(s)
                  THEN s.currentOperator ELSE NoCall
           [] button.type = CALC_BUTTON_EQUALS ->
                  IF ~(~s.hasAccumulator /\ s.input # << >>)
                     /\ s.hasAccumulator /\ s.currentOperator # NUL
                  THEN s.currentOperator ELSE NoCall
           [] OTHER -> NoCall

(***************************************************************************)
(* Hit test (main.c:286-298): the first button, in table order, whose      *)
(* rectangle contains the point, all four edges included; -1 if none.      *)
(***************************************************************************)
Contains(btn, x, y) ==
    x >= btn.x /\ x <= (btn.x + btn.w) /\ y >= btn.y /\ y <= (btn.y + btn.h)

Calculator_FindButton(x, y) ==
    IF \E i \in DOMAIN buttons : Contains(buttons[i], x, y)
    THEN CHOOSE i \in DOMAIN buttons :
             /\ Contains(buttons[i], x, y)
             /\ \A j \in DOMAIN buttons : Contains(buttons[j], x, y) => i <= j
    ELSE -1

(***************************************************************************)
(* Bounds of the model                                                     *)
(***************************************************************************)
\* keys handed to the engine in a run of SpecEngine
MaxKeys == 6
\* the touch points probed in a run of SpecLayout: 0..MaxProbeX by 0..MaxProbeY,
\* a range that holds every rectangle of the table and a margin around them
MaxProbeX == 240
MaxProbeY == 385
\* iterations of the loop of main() in a run of Spec
MaxTicks == 5

Label(ls) == {ButtonIndex(l) : l \in ls}

\* the keys pressed in SpecEngine
EngineKeys == Label({"0", "2", ".", "+", "-", "*", "/", "C", "="})
\* the keys pressed in SpecBuffer
BufferKeys == Label({"0", ".", "+", "-", "*", "/", "C", "="})

Centre(i) == << buttons[i].x + (buttons[i].w \div 2), buttons[i].y + (buttons[i].h \div 2) >>
FarCorner(i) == << buttons[i].x + buttons[i].w, buttons[i].y + buttons[i].h >>
\* a point of the gap to the right of button i
RightGap(i) == << buttons[i].x + buttons[i].w + 1, buttons[i].y + (buttons[i].h \div 2) >>

\* the touch coordinates sampled in Spec
SamplePoints ==
    { Centre(ButtonIndex("7")), FarCorner(ButtonIndex("7")), RightGap(ButtonIndex("7")),
      Centre(ButtonIndex("8")), Centre(ButtonIndex("/")),
      Centre(ButtonIndex("C")), Centre(ButtonIndex("=")) }

(***************************************************************************)
(* State                                                                   *)
(***************************************************************************)
VARIABLES
    state,               \* CalculatorState state            (main.c:302)
    lastButton,          \* int8_t lastButton                (main.c:303)
    touchStatus,         \* TouchStatus touchStatus          (main.c:304)
    lastRenderedStatus,  \* TouchStatus lastRenderedStatus   (main.c:305)
    stateDirty,          \* bool stateDirty                  (main.c:306)
    lcdDisplay,          \* what the last Calculator_DrawDisplay call was given
    lcdPressed,          \* the buttons whose last Calculator_DrawButton call had pressed = true
    keys,                \* history: the buttons handed to Calculator_HandleButton so far
    lastKey,             \* history: the button of the latest Calculator_HandleButton call, or -1
    nticks,              \* history: the loop iterations done so far
    pressHits,           \* history: the hit test results of the ticks of the current press
    pressActs,           \* history: the buttons activated during the current press
    released,            \* history: the button the latest iteration drew unpressed, or -1
    gate                 \* history: stateDirty at line 353 of the latest iteration, and
                         \*          whether the iteration called Calculator_DrawDisplay

loopVars == << lastButton, touchStatus, lastRenderedStatus, stateDirty,
               lcdDisplay, lcdPressed, nticks, pressHits, pressActs, released, gate >>
vars == << state, lastButton, touchStatus, lastRenderedStatus, stateDirty,
           lcdDisplay, lcdPressed, keys, lastKey, nticks, pressHits, pressActs,
           released, gate >>

\* Calculator_DrawDisplay(&state, &touch) (main.c:142-174): the display shows
\* the calculator state and the pointer status it was given
Calculator_DrawDisplay(s, touch) == [state |-> s, touch |-> touch]

\* contents the CalculatorState of main.c:302 may hold before it is reset
Indeterminate ==
    { [accumulator |-> Zero, currentOperator |-> NUL, hasAccumulator |-> FALSE,
       error |-> FALSE, input |-> << >>],
      [accumulator |-> Rat(1, 3), currentOperator |-> "*", hasAccumulator |-> TRUE,
       error |-> TRUE, input |-> << "9", ".", "." >>] }

\* the state when main() enters its loop (main.c:303, 320-328)
Init ==
    /\ \E u \in Indeterminate : state = Calculator_Reset(u)
    /\ lastButton = -1
    /\ touchStatus = [x |-> 0, y |-> 0, pressed |-> FALSE]
    /\ lastRenderedStatus = touchStatus
    /\ stateDirty = TRUE
    /\ lcdDisplay = Calculator_DrawDisplay(state, touchStatus)
    /\ lcdPressed = {}
    /\ keys = << >>
    /\ lastKey = -1
    /\ nticks = 0
    /\ pressHits = << >>
    /\ pressActs = << >>
    /\ released = -1
    /\ gate = [dirty |-> TRUE, refreshed |-> FALSE]

(***************************************************************************)
(* The engine, one key at a time: Calculator_HandleButton (main.c:263-284) *)
(***************************************************************************)
Activate(i) ==
    /\ state' = Calculator_HandleButton(state, buttons[i])
    /\ lastKey' = i

Key(i) ==
    /\ Len(keys) < MaxKeys
    /\ Activate(i)
    /\ keys' = Append(keys, i)
    /\ UNCHANGED loopVars

OnDigit == \E i \in EngineKeys : buttons[i].type = CALC_BUTTON_DIGIT /\ Key(i)
OnOperator == \E i \in EngineKeys : buttons[i].type = CALC_BUTTON_OPERATOR /\ Key(i)
OnClear == \E i \in EngineKeys : buttons[i].type = CALC_BUTTON_CLEAR /\ Key(i)
OnEquals == \E i \in EngineKeys : buttons[i].type = CALC_BUTTON_EQUALS /\ Key(i)

NextEngine == OnDigit \/ OnOperator \/ OnClear \/ OnEquals
SpecEngine == Init /\ [][NextEngine]_vars

\* the same steps with the keys that fill the input buffer, in any number
Fill(i) ==
    /\ Activate(i)
    /\ UNCHANGED keys
    /\ UNCHANGED loopVars

FillDigit == \E i \in BufferKeys : buttons[i].type = CALC_BUTTON_DIGIT /\ Fill(i)
FillOperator == \E i \in BufferKeys : buttons[i].type = CALC_BUTTON_OPERATOR /\ Fill(i)
FillClear == \E i \in BufferKeys : buttons[i].type = CALC_BUTTON_CLEAR /\ Fill(i)
FillEquals == \E i \in BufferKeys : buttons[i].type = CALC_BUTTON_EQUALS /\ Fill(i)

NextBuffer == FillDigit \/ FillOperator \/ FillClear \/ FillEquals
SpecBuffer == Init /\ [][NextBuffer]_vars

(***************************************************************************)
(* One iteration of the loop of main() (main.c:330-361).  The touch        *)
(* controller reports either a press at (x, y) or no press.                *)
(***************************************************************************)
\* line 337 without the comparison with lastButton
NewActivation_NoHeldCheck(pressed, last) == pressed >= 0

\* line 337 activating only when no button is held
NewActivation_OnlyFromIdle(pressed, last) == pressed >= 0 /\ last = -1

\* pressed >= 0 && pressed != lastButton                       (main.c:337)
NewActivation(pressed, last) == pressed >= 0 /\ pressed # last

\* the condition of the render gate without lines 355-356
NeedsRefresh_NoCoordinates(dirty, touch, rendered) ==
    \/ dirty
    \/ touch.pressed # rendered.pressed

\* stateDirty || touchStatus differs from lastRenderedStatus   (main.c:353-356)
NeedsRefresh(dirty, touch, rendered) ==
    \/ dirty
    \/ touch.pressed # rendered.pressed
    \/ touch.x # rendered.x
    \/ touch.y # rendered.y

\* the render gate without line 359
RenderGate_KeepsDirty(s, touch, dirty) ==
    IF NeedsRefresh(dirty, touch, lastRenderedStatus)
    THEN /\ lcdDisplay' = Calculator_DrawDisplay(s, touch)
         /\ lastRenderedStatus' = touch
         /\ stateDirty' = dirty
         /\ gate' = [dirty |-> dirty, refreshed |-> TRUE]
    ELSE /\ lcdDisplay' = lcdDisplay
         /\ lastRenderedStatus' = lastRenderedStatus
         /\ stateDirty' = dirty
         /\ gate' = [dirty |-> dirty, refreshed |-> FALSE]

\* the render gate (main.c:353-360), given the values the touch handling left
RenderGate(s, touch, dirty) ==
    IF NeedsRefresh(dirty, touch, lastRenderedStatus)
    THEN /\ lcdDisplay' = Calculator_DrawDisplay(s, touch)
         /\ lastRenderedStatus' = touch
         /\ stateDirty' = FALSE
         /\ gate' = [dirty |-> dirty, refreshed |-> TRUE]
    ELSE /\ lcdDisplay' = lcdDisplay
         /\ lastRenderedStatus' = lastRenderedStatus
         /\ stateDirty' = dirty
         /\ gate' = [dirty |-> dirty, refreshed |-> FALSE]

\* the pressed branch without line 339
PressedBranch_NoDirty(x, y) ==
    LET touch == [x |-> x, y |-> y, pressed |-> TRUE]
        pressed == Calculator_FindButton(x, y)
    IN  /\ touchStatus' = touch
        /\ pressHits' = Append(pressHits, pressed)
        /\ released' = -1
        /\ IF NewActivation(pressed, lastButton)
           THEN /\ Activate(pressed)
                /\ keys' = Append(keys, pressed)
                /\ pressActs' = Append(pressActs, [tick |-> Len(pressHits) + 1,
                                                    button |-> pressed])
                /\ lcdPressed' = lcdPressed \cup {pressed}
                /\ lastButton' = pressed
                /\ RenderGate(state', touch, stateDirty)
           ELSE /\ UNCHANGED << state, lastKey, keys, pressActs, lcdPressed, lastButton >>
                /\ RenderGate(state, touch, stateDirty)

\* main.c:331-342
PressedBranch(x, y) ==
    LET touch == [x |-> x, y |-> y, pressed |-> TRUE]
        pressed == Calculator_FindButton(x, y)
    IN  /\ touchStatus' = touch
        /\ pressHits' = Append(pressHits, pressed)
        /\ released' = -1
        /\ IF NewActivation(pressed, lastButton)
           THEN /\ Activate(pressed)
                /\ keys' = Append(keys, pressed)
                /\ pressActs' = Append(pressActs, [tick |-> Len(pressHits) + 1,
                                                    button |-> pressed])
                /\ lcdPressed' = lcdPressed \cup {pressed}
                /\ lastButton' = pressed
                /\ RenderGate(state', touch, TRUE)
           ELSE /\ UNCHANGED << state, lastKey, keys, pressActs, lcdPressed, lastButton >>
                /\ RenderGate(state, touch, stateDirty)

\* the else branch without line 349
ReleasedBranch_KeepsLastButton ==
    LET touch == [x |-> 0, y |-> 0, pressed |-> FALSE]
    IN  /\ touchStatus' = touch
        /\ pressHits' = << >>
        /\ pressActs' = << >>
        /\ IF lastButton >= 0
           THEN /\ lcdPressed' = lcdPressed \ {lastButton}
                /\ released' = lastButton
                /\ lastButton' = lastButton
           ELSE /\ released' = -1
                /\ UNCHANGED << lcdPressed, lastButton >>
        /\ UNCHANGED << state, lastKey, keys >>
        /\ RenderGate(state, touch, stateDirty)

\* the else branch with > for >= in line 347
ReleasedBranch_SkipsButtonZero ==
    LET touch == [x |-> 0, y |-> 0, pressed |-> FALSE]
    IN  /\ touchStatus' = touch
        /\ pressHits' = << >>
        /\ pressActs' = << >>
        /\ IF lastButton > 0
           THEN /\ lcdPressed' = lcdPressed \ {lastButton}
                /\ released' = lastButton
                /\ lastButton' = -1
           ELSE /\ released' = -1
                /\ UNCHANGED << lcdPressed, lastButton >>
        /\ UNCHANGED << state, lastKey, keys >>
        /\ RenderGate(state, touch, stateDirty)

\* main.c:343-351
ReleasedBranch ==
    LET touch == [x |-> 0, y |-> 0, pressed |-> FALSE]
    IN  /\ touchStatus' = touch
        /\ pressHits' = << >>
        /\ pressActs' = << >>
        /\ IF lastButton >= 0
           THEN /\ lcdPressed' = lcdPressed \ {lastButton}
                /\ released' = lastButton
                /\ lastButton' = -1
           ELSE /\ released' = -1
                /\ UNCHANGED << lcdPressed, lastButton >>
        /\ UNCHANGED << state, lastKey, keys >>
        /\ RenderGate(state, touch, stateDirty)

\* an iteration in which TM_STMPE811_ReadTouch reports a press
TickPressed ==
    \E p \in SamplePoints :
        /\ nticks < MaxTicks
        /\ nticks' = nticks + 1
        /\ PressedBranch(p[1], p[2])

\* an iteration in which it reports no press
TickNotPressed ==
    /\ nticks < MaxTicks
    /\ nticks' = nticks + 1
    /\ ReleasedBranch

Next == TickPressed \/ TickNotPressed
Spec == Init /\ [][Next]_vars

(***************************************************************************)
(* The hit test over the panel: the first iteration of the loop with a     *)
(* press reported at any point of the probed range (main.c:331-342)        *)
(***************************************************************************)
ProbeTick ==
    /\ nticks = 0
    /\ \E x \in 0 .. MaxProbeX, y \in 0 .. MaxProbeY :
           /\ nticks' = nticks + 1
           /\ PressedBranch(x, y)

NextLayout == ProbeTick
SpecLayout == Init /\ [][NextLayout]_vars

(***************************************************************************)
(* Properties of the engine                                                *)
(***************************************************************************)
Operators == {"+", "-", "*", "/"}
TypeOf(i) == buttons[i].type
LabelOf(i) == buttons[i].label

\* this step of SpecEngine hands a key of the given type to the engine
KeyStep(type) == keys' = Append(keys, lastKey') /\ TypeOf(lastKey') = type

\* the keys pressed so far are exactly ks, given by their labels
Typed(ks) == keys = [k \in 1 .. Len(ks) |-> ButtonIndex(ks[k])]

\* C1: right after onOperator(op1), with an accumulator, no error and an empty
\* buffer, onOperator(op2) sets the pending operator to op2 and leaves the
\* accumulator and the error flag as they were.
C1_OperatorOverride ==
    [][ ( /\ ~state.error
          /\ state.hasAccumulator
          /\ state.currentOperator \in Operators
          /\ state.input = << >>
          /\ lastKey >= 0
          /\ TypeOf(lastKey) = CALC_BUTTON_OPERATOR
          /\ KeyStep(CALC_BUTTON_OPERATOR) )
        => ( /\ state'.currentOperator = LabelOf(lastKey')
             /\ state'.accumulator = state.accumulator
             /\ state'.error = state.error ) ]_vars

\* C2: while error is set, a digit, operator or equals key leaves the whole
\* CalculatorState as it is; only the clear key ends the error.
C2_StickyError ==
    [][ ( /\ state.error
          /\ keys' = Append(keys, lastKey')
          /\ TypeOf(lastKey') # CALC_BUTTON_CLEAR )
        => state' = state ]_vars

\* a digit key was pressed while the error was set, and the error is still set
C2_Witness ==
    /\ state.error
    /\ state.accumulator = Zero
    /\ Len(keys) >= 3
    /\ TypeOf(keys[Len(keys)]) = CALC_BUTTON_DIGIT
    /\ TypeOf(keys[Len(keys) - 1]) = CALC_BUTTON_EQUALS

\* the characters of s all come from cs
Only(s, cs) == \A k \in 1 .. Len(s) : s[k] \in cs

\* C3: the error flag goes from false to true exactly in an operator or equals
\* step that applies the pending '/' to a buffer whose value is 0 (the empty
\* buffer included), and that step leaves 0.0 in the accumulator.
C3_DivisionByZeroOnly ==
    [][ LET raised == ~state.error /\ state'.error
            divides == /\ ~state.error
                       /\ \/ KeyStep(CALC_BUTTON_OPERATOR)
                          \/ KeyStep(CALC_BUTTON_EQUALS)
                       /\ state.hasAccumulator
                       /\ state.currentOperator = "/"
                       /\ Only(state.input, {"0", "."})
        IN  /\ raised <=> divides
            /\ raised => state'.accumulator = Zero ]_vars

\* the keys 2 / 0 = have raised the error
C3_Witness ==
    /\ Typed(<< "2", "/", "0", "=" >>)
    /\ state.error
    /\ state.accumulator = Zero

\* C4: whatever the state before, the clear key leaves the initial state.
C4_ClearResets ==
    (lastKey >= 0 /\ TypeOf(lastKey) = CALC_BUTTON_CLEAR)
        => state = [accumulator |-> << 0, 1 >>,
                    currentOperator |-> NUL,
                    hasAccumulator |-> FALSE,
                    error |-> FALSE,
                    input |-> << >>]

\* the clear key was pressed in an error state
C4_Witness ==
    /\ Typed(<< "2", "/", "=", "C" >>)
    /\ ~state.error
    /\ ~state.hasAccumulator

\* the labels of the keys ks[from .. to]
LabelsOf(ks, from, to) == [k \in 1 .. (to - from + 1) |-> LabelOf(ks[from + k - 1])]

\* an operand as typed: one or more digit keys with at most one '.' among them
IsOperand(s) ==
    /\ s # << >>
    /\ Only(s, DigitChars \cup {"."})
    /\ Cardinality({k \in 1 .. Len(s) : s[k] = "."}) <= 1

\* the number an operand denotes: its digits read as one integer, divided by
\* ten for every digit behind the '.'
OperandValue(s) ==
    LET dots == {k \in 1 .. Len(s) : s[k] = "."}
        digits == SelectSeq(s, LAMBDA c : c # ".")
        behind == IF dots = {} THEN 0 ELSE Len(s) - (CHOOSE k \in dots : TRUE)
    IN  Rat(Numeral(digits, 1, Len(digits)), Pow10(behind))

\* a op b in exact arithmetic
Arith(a, op, b) ==
    CASE op = "+" -> << a[1] * b[2] + b[1] * a[2], a[2] * b[2] >>
      [] op = "-" -> << a[1] * b[2] - b[1] * a[2], a[2] * b[2] >>
      [] op = "*" -> << a[1] * b[1], a[2] * b[2] >>
      [] op = "/" -> << a[1] * b[2], a[2] * b[1] >>

\* two fractions with the same value
SameValue(p, q) == p[2] # 0 /\ q[2] # 0 /\ p[1] * q[2] = q[1] * p[2]

\* C5: from the initial state the keys a, op, b, '=' (a and b operands, op one
\* of + - * /, not a division by zero) leave a op b in the accumulator, with
\* hasAccumulator set, the buffer empty, no pending operator and no error.
C5_BinaryEvaluation ==
    \A o \in 2 .. (Len(keys) - 2) :
        LET n == Len(keys)
            a == LabelsOf(keys, 1, o - 1)
            b == LabelsOf(keys, o + 1, n - 1)
            op == LabelOf(keys[o])
        IN  ( /\ TypeOf(keys[n]) = CALC_BUTTON_EQUALS
              /\ TypeOf(keys[o]) = CALC_BUTTON_OPERATOR
              /\ IsOperand(a)
              /\ IsOperand(b)
              /\ ~(op = "/" /\ OperandValue(b)[1] = 0) )
            => /\ SameValue(state.accumulator, Arith(OperandValue(a), op, OperandValue(b)))
               /\ state.hasAccumulator
               /\ state.input = << >>
               /\ state.currentOperator = NUL
               /\ ~state.error

\* 22 / .2 = has left 110 in the accumulator
C5_Witness ==
    /\ Typed(<< "2", "2", "/", ".", "2", "=" >>)
    /\ state.accumulator = << 110, 1 >>
    /\ state.hasAccumulator
    /\ state.currentOperator = NUL
    /\ state.input = << >>

(***************************************************************************)
(* Properties of the input buffer                                          *)
(***************************************************************************)
\* the visible characters the buffer has room for, in front of the terminator
Capacity == INPUT_BUFFER_SIZE - 1

Dots(s) == {k \in 1 .. Len(s) : s[k] = "."}

\* C9: the input buffer never holds more than 16 characters, never more than
\* one '.', and nothing but digits and '.'.
C9_BufferInvariant ==
    /\ Len(state.input) <= Capacity
    /\ Cardinality(Dots(state.input)) <= 1
    /\ Only(state.input, DigitChars \cup {"."})

\* the buffer is full and has a '.' in it, and the last key was a digit key
\* that no longer went in
C9_Witness ==
    /\ Len(state.input) = Capacity
    /\ Cardinality(Dots(state.input)) = 1
    /\ state.input[Capacity] = "."
    /\ lastKey = ButtonIndex("0")

\* C10: a digit key pressed when the buffer holds 16 characters, or the '.' key
\* pressed when the buffer has a '.', changes nothing of the CalculatorState;
\* any other digit key pressed without error puts its character at the end of
\* the buffer and changes nothing else.
C10_SilentRejection ==
    [][ (lastKey' >= 0 /\ TypeOf(lastKey') = CALC_BUTTON_DIGIT)
        => LET c == LabelOf(lastKey')
           IN  IF \/ Len(state.input) = Capacity
                  \/ (c = "." /\ Dots(state.input) # {})
               THEN state' = state
               ELSE ~state.error
                    => /\ state'.input = state.input \o << c >>
                       /\ state'.accumulator = state.accumulator
                       /\ state'.hasAccumulator = state.hasAccumulator
                       /\ state'.currentOperator = state.currentOperator
                       /\ state'.error = state.error ]_vars

\* a second '.' was refused after the first one went in, and so was a digit
\* once the buffer was full
C10_Witness ==
    /\ Len(state.input) = Capacity
    /\ state.input[Capacity] = "0"
    /\ state.input[1] = "."
    /\ Cardinality(Dots(state.input)) = 1
    /\ lastKey = ButtonIndex(".")
    /\ ~state.error

(***************************************************************************)
(* Properties of the touch dispatch                                        *)
(***************************************************************************)
\* the ticks of the current press all hit button i
AllOn(hits, i) == \A k \in 1 .. Len(hits) : hits[k] = i

\* C6: a press that starts with no button held and whose samples all lie in
\* the rectangle of one button i activates the engine exactly once, on its
\* first tick and with button i, however many ticks it lasts.
C6_NoRepeatFire ==
    \A i \in DOMAIN buttons :
        (pressHits # << >> /\ AllOn(pressHits, i))
            => pressActs = << [tick |-> 1, button |-> i] >>

\* the press has lasted four ticks on the button 7, one of them on its far
\* corner, and the engine got the key once
C6_Witness ==
    /\ Len(pressHits) = 4
    /\ AllOn(pressHits, ButtonIndex("7"))
    /\ touchStatus.x = buttons[ButtonIndex("7")].x + buttons[ButtonIndex("7")].w
    /\ pressActs = << [tick |-> 1, button |-> ButtonIndex("7")] >>
    /\ keys = << ButtonIndex("7") >>
    /\ state.input = << "7" >>

\* C7: a press that stays on button i for m >= 1 ticks and then on another
\* button j for the rest of its ticks activates twice: i on the first tick and
\* j on the first tick on j.
C7_DragActivation ==
    \A i, j \in DOMAIN buttons :
        \A m \in 1 .. (Len(pressHits) - 1) :
            ( /\ i # j
              /\ AllOn(SubSeq(pressHits, 1, m), i)
              /\ AllOn(SubSeq(pressHits, m + 1, Len(pressHits)), j) )
            => pressActs = << [tick |-> 1, button |-> i],
                              [tick |-> m + 1, button |-> j] >>

\* two ticks on 7, then two on 8: the engine got 7 and then 8
C7_Witness ==
    /\ pressHits = << ButtonIndex("7"), ButtonIndex("7"),
                      ButtonIndex("8"), ButtonIndex("8") >>
    /\ Len(pressActs) = 2
    /\ state.input = << "7", "8" >>

\* C8 as the claim has it: no press activates the engine more than once.
C8_AtMostOncePerPress == Len(pressActs) <= 1

\* the ticks of a press on which the sample hits a button other than the one
\* hit last before (gaps between buttons left out of account)
RECURSIVE Changes(_, _, _)
Changes(hits, k, held) ==
    IF k > Len(hits) THEN << >>
    ELSE IF hits[k] >= 0 /\ hits[k] # held
         THEN << [tick |-> k, button |-> hits[k]] >> \o Changes(hits, k + 1, hits[k])
         ELSE Changes(hits, k + 1, held)

\* C8, amended: within one press the engine is activated on exactly the ticks
\* whose sample hits a button other than the button hit last before in that
\* press, the first button hit included; so at most once while the press
\* touches no second button.
C8_OncePerButtonChange == pressActs = Changes(pressHits, 1, -1)

\* a press went from 7 into the gap, back onto 7 and on to 8: two activations
C8_Witness ==
    /\ pressHits = << ButtonIndex("7"), -1, ButtonIndex("7"), ButtonIndex("8") >>
    /\ Len(pressActs) = 2

(***************************************************************************)
(* Further properties of the engine                                        *)
(***************************************************************************)
\* this step of SpecEngine hands a key to the engine
AnyKeyStep == keys' = Append(keys, lastKey')

\* C11 as the claim has it: no key makes the engine call
\* Calculator_ApplyOperation with an operator other than + - * /.
C11_FallbackNeverReached ==
    [][ AnyKeyStep
        => AppliedOperator(state, buttons[lastKey']) \in Operators \cup {NoCall} ]_vars

\* C11, amended: the pending operator is always none or one of + - * /; the
\* engine calls Apply with no operator exactly when an operator key is pressed
\* without error, with an accumulator, no pending operator and a non-empty
\* buffer (an operand typed after '='), and the accumulator then becomes the
\* value of the buffer; the equals key never does so.
C11_FallbackAfterEquals ==
    [][ AnyKeyStep
        => LET op == AppliedOperator(state, buttons[lastKey'])
               restart == /\ TypeOf(lastKey') = CALC_BUTTON_OPERATOR
                          /\ ~state.error
                          /\ state.hasAccumulator
                          /\ state.currentOperator = NUL
                          /\ state.input # << >>
           IN  /\ state.currentOperator \in Operators \cup {NUL}
               /\ op \in Operators \cup {NoCall, NUL}
               /\ (op = NUL) <=> restart
               /\ restart => /\ SameValue(state'.accumulator, OperandValue(state.input))
                             /\ state'.currentOperator = LabelOf(lastKey')
                             /\ state'.input = << >>
                             /\ ~state'.error ]_vars

\* after 2 = the keys . 2 + have put 0.2 in the accumulator
C11_Witness ==
    /\ Typed(<< "2", "=", ".", "2", "+" >>)
    /\ state.accumulator = << 1, 5 >>
    /\ state.currentOperator = "+"

\* the positions o1 < o2 of keys split them into a, op1, b, op2 and a rest
Chain(o1, o2) ==
    /\ TypeOf(keys[o1]) = CALC_BUTTON_OPERATOR
    /\ TypeOf(keys[o2]) = CALC_BUTTON_OPERATOR
    /\ IsOperand(LabelsOf(keys, 1, o1 - 1))
    /\ IsOperand(LabelsOf(keys, o1 + 1, o2 - 1))
    /\ ~( LabelOf(keys[o1]) = "/"
          /\ OperandValue(LabelsOf(keys, o1 + 1, o2 - 1))[1] = 0 )

\* a op1 b for the split at o1 < o2
ChainLeft(o1, o2) ==
    Arith(OperandValue(LabelsOf(keys, 1, o1 - 1)),
          LabelOf(keys[o1]),
          OperandValue(LabelsOf(keys, o1 + 1, o2 - 1)))

\* C12: from the initial state the keys a, op1, b, op2 leave a op1 b in the
\* accumulator, an empty buffer and op2 pending; the keys c, '=' after them
\* leave (a op1 b) op2 c, whatever the precedence of op1 and op2 (no division
\* by zero among them).
C12_LeftToRight ==
    LET n == Len(keys)
    IN  \A o1 \in 2 .. (n - 2) :
            /\ Chain(o1, n)
               => /\ SameValue(state.accumulator, ChainLeft(o1, n))
                  /\ state.input = << >>
                  /\ state.currentOperator = LabelOf(keys[n])
                  /\ state.hasAccumulator
                  /\ ~state.error
            /\ \A o2 \in (o1 + 2) .. (n - 2) :
                   LET c == LabelsOf(keys, o2 + 1, n - 1)
                       op2 == LabelOf(keys[o2])
                   IN  ( /\ Chain(o1, o2)
                         /\ IsOperand(c)
                         /\ TypeOf(keys[n]) = CALC_BUTTON_EQUALS
                         /\ ~(op2 = "/" /\ OperandValue(c)[1] = 0) )
                       => /\ SameValue(state.accumulator,
                                       Arith(ChainLeft(o1, o2), op2, OperandValue(c)))
                          /\ state.input = << >>
                          /\ state.currentOperator = NUL
                          /\ ~state.error

\* 2 + 2 * 2 = has left 8, not 6
C12_Witness ==
    /\ Typed(<< "2", "+", "2", "*", "2", "=" >>)
    /\ state.accumulator = << 8, 1 >>

\* C13: an equals key right after an equals key changes nothing of the
\* CalculatorState, and an equals key changes nothing at all when there is
\* neither a buffer without accumulator nor an accumulator with a pending
\* operator.
C13_EqualsIdempotent ==
    [][ KeyStep(CALC_BUTTON_EQUALS)
        => /\ (lastKey >= 0 /\ TypeOf(lastKey) = CALC_BUTTON_EQUALS) => state' = state
           /\ ( /\ ~(~state.hasAccumulator /\ state.input # << >>)
                /\ ~(state.hasAccumulator /\ state.currentOperator # NUL) )
              => state' = state ]_vars

\* 2 * 2 = = has left the 4 of the first equals key
C13_Witness ==
    /\ Typed(<< "2", "*", "2", "=", "=" >>)
    /\ state.accumulator = << 4, 1 >>
    /\ state.currentOperator = NUL

\* C20: a pending operator comes with an accumulator, and an error with the
\* accumulator 0.0.
C20_PendingAndError ==
    /\ state.currentOperator # NUL => state.hasAccumulator
    /\ state.error => state.accumulator = << 0, 1 >>

\* 2 / 0 + has raised the error and left '+' pending
C20_Witness ==
    /\ Typed(<< "2", "/", "0", "+" >>)
    /\ state.error
    /\ state.currentOperator = "+"
    /\ state.hasAccumulator

(***************************************************************************)
(* Properties of the loop: render gate, release, display                   *)
(***************************************************************************)
\* this step is an iteration of the loop
Iteration == nticks' = nticks + 1
\* the iteration handed a button to the engine
Activated == keys' # keys
\* the iteration found no press while a button was held
Release == lastButton >= 0 /\ ~touchStatus'.pressed

\* C14: an iteration refreshes the display exactly if, after its touch
\* handling, dirty is set or the pointer status differs from the one rendered
\* last; a refresh leaves dirty cleared and the rendered status equal to the
\* pointer status, and an iteration without refresh leaves both as they were.
C14_RenderGate ==
    [][ Iteration
        => LET dirty == stateDirty \/ Activated
               moved == touchStatus' # lastRenderedStatus
           IN  /\ gate'.refreshed <=> (dirty \/ moved)
               /\ gate'.refreshed
                  => /\ ~stateDirty'
                     /\ lastRenderedStatus' = touchStatus'
               /\ ~gate'.refreshed
                  => /\ stateDirty' = stateDirty
                     /\ lastRenderedStatus' = lastRenderedStatus
                     /\ lcdDisplay' = lcdDisplay ]_vars

\* a tick with the finger resting where it was: no refresh
C14_Witness ==
    /\ nticks >= 2
    /\ touchStatus.pressed
    /\ lastButton >= 0
    /\ ~gate.refreshed
    /\ ~stateDirty

\* C15 as the claim has it: dirty is set in every iteration that activates a
\* button and in every iteration that releases a held button.
C15_DirtyOnActivationAndRelease ==
    [][ Iteration
        => /\ Activated => gate'.dirty
           /\ Release => gate'.dirty ]_vars

\* C15, amended: dirty is set in every iteration that activates a button; an
\* iteration that releases a held button does not set it, and refreshes the
\* display all the same.
C15_DirtyOnActivation ==
    [][ Iteration
        => /\ Activated => gate'.dirty
           /\ Release => (~gate'.dirty /\ gate'.refreshed) ]_vars

\* the button 7 was activated, and released two ticks later without dirty set
C15_Witness ==
    /\ nticks = 3
    /\ keys = << ButtonIndex("7") >>
    /\ released = ButtonIndex("7")
    /\ ~gate.dirty
    /\ gate.refreshed

\* C16: a tick without press while button i is held draws i unpressed and
\* leaves no button held; a tick without press while no button is held draws
\* nothing; and the first tick of a press on a button activates it, also when
\* the press before was on the same button.
C16_ReleaseAndRepress ==
    [][ Iteration
        => /\ Release => (released' = lastButton /\ lastButton' = -1)
           /\ (lastButton = -1 /\ ~touchStatus'.pressed)
              => (released' = -1 /\ lastButton' = -1 /\ lcdPressed' = lcdPressed)
           /\ ( /\ touchStatus'.pressed
                /\ pressHits = << >>
                /\ pressHits'[1] >= 0 )
              => keys' = Append(keys, pressHits'[1]) ]_vars

\* 7 pressed, released and pressed again: the engine got it twice
C16_Witness ==
    /\ nticks = 3
    /\ keys = << ButtonIndex("7"), ButtonIndex("7") >>
    /\ state.input = << "7", "7" >>
    /\ Len(pressHits) = 1

\* C18: once a tick without press is done, no button is drawn pressed.
C18_NoButtonLeftPressed ==
    (nticks > 0 /\ ~touchStatus.pressed) => (lastButton = -1 /\ lcdPressed = {})

\* C19: after every iteration the display shows the current CalculatorState
\* and pointer status.
C19_DisplayNeverStale ==
    /\ lcdDisplay.state = state
    /\ lcdDisplay.touch = touchStatus

\* the finger moved on the button 7 after it was activated, then onto 8
C19_Witness ==
    /\ pressHits = << ButtonIndex("7"), ButtonIndex("7"), ButtonIndex("8") >>
    /\ lcdDisplay.state.input = << "7", "8" >>
    /\ lcdDisplay.touch.x = Centre(ButtonIndex("8"))[1]
    /\ gate.refreshed

(***************************************************************************)
(* Properties of the button table                                          *)
(***************************************************************************)
\* the buttons whose rectangle, edges included, holds the point
Holding(x, y) == { i \in DOMAIN buttons : Contains(buttons[i], x, y) }

\* C17: for every point at most one button of the table holds it under the
\* inclusive hit test, and Calculator_FindButton returns that button, or -1
\* if there is none; so the result does not depend on the table order.
C17_RectanglesDisjoint ==
    pressHits # << >>
    => LET S == Holding(touchStatus.x, touchStatus.y)
           hit == pressHits[1]
       IN  /\ Cardinality(S) <= 1
           /\ S = {} => hit = -1
           /\ S # {} => S = {hit}

\* the press on the lower right corner pixel of the button 5, next to 6 and 2
C17_Witness ==
    /\ pressHits = << ButtonIndex("5") >>
    /\ touchStatus.x = buttons[ButtonIndex("5")].x + BUTTON_WIDTH
    /\ touchStatus.y = buttons[ButtonIndex("5")].y + BUTTON_HEIGHT
    /\ keys = << ButtonIndex("5") >>

====
